---- MODULE Spec2Model ----
(***************************************************************************)
(* Calorie-tracker: the food search / nutrition client                     *)
(* (client/src/hooks/useNutritionApi.ts, TrackFoodForm) and the REST       *)
(* routes with their DatabaseStorage (server routes.ts / storage.ts).      *)
(*                                                                         *)
(* Text is modelled by TLA+ strings; a JavaScript object is a record whose *)
(* DOMAIN holds exactly the properties that are present, and null is the   *)
(* record Null.  A float that is the product value * (quantity / 100) is   *)
(* the exact fraction [num, den].                                          *)
(***************************************************************************)
EXTENDS Integers, Sequences, FiniteSets, TLC

VARIABLES
    adIn,        \* adapters: source -> the native record last handed to its adapter
    adOut,       \* adapters: source -> what the adapter call produced
    waterIntake, \* server: the water_intake table, a set of rows
    waterNextId, \* server: the next serial id of water_intake
    waterReqs,   \* server: request -> the position of its handler
    waterResp,   \* server: the last GET /water-intake and its response
    indianFoods, \* server: the indian_foods table, a set of rows
    indianNextId,\* server: the next serial id of indian_foods
    indianResp,  \* server: the last /indian-foods request and its response
    searchQuery, \* form: the text of the search box
    searchMode,  \* form: "all", "indian", "usda" or "custom"
    customFoods, \* form: the custom-foods query data, <<>> while undefined
    searchResults, \* form: the result list
    showResults, \* form: whether the result list is shown
    timer,       \* form: the debounce timer of the search effect
    quietFor,    \* form: ms since searchQuery or searchMode last changed, up to the delay
    searches,    \* form: the search callbacks awaiting their sources
    lastDone,    \* form: the callback that set the result list last
    isSearching, \* hook: isSearching state
    isSearchingIndian, \* hook: isSearchingIndian state
    error,       \* hook: whether the error state holds an Error
    selectedFood,\* form: the selected result, <<>> while null
    quantity,    \* form: the quantity field
    posted,      \* form: the food items handed to POST /api/food-items
    userGoals,   \* server: the user_goals table, a set of rows
    goalsNextId, \* server: the next serial id of user_goals
    goalReqs,    \* server: request -> the position of its /user-goals handler
    customFoodRows, \* server: the custom_foods table, a set of rows
    customNextId,\* server: the next serial id of custom_foods
    customResp,  \* server: the last /custom-foods request and its response
    foodItems,   \* server: the food_items table, a set of rows
    foodNextId,  \* server: the next serial id of food_items
    foodResp     \* server: the last /food-items request and its response

adapterVars == <<adIn, adOut>>
waterVars == <<waterIntake, waterNextId, waterReqs, waterResp>>
indianVars == <<indianFoods, indianNextId, indianResp>>
searchVars == <<searchQuery, searchMode, customFoods, searchResults,
                showResults, timer, quietFor, searches, lastDone,
                isSearching, isSearchingIndian, error>>
calcVars == <<selectedFood, quantity, posted>>
clientVars == <<searchVars, calcVars>>
goalVars == <<userGoals, goalsNextId, goalReqs>>
customStoreVars == <<customFoodRows, customNextId, customResp>>
foodVars == <<foodItems, foodNextId, foodResp>>
vars == <<adIn, adOut, waterIntake, waterNextId, waterReqs, waterResp,
          indianFoods, indianNextId, indianResp,
          searchQuery, searchMode, customFoods, searchResults,
          showResults, timer, quietFor, searches, lastDone,
          isSearching, isSearchingIndian, error,
          selectedFood, quantity, posted,
          userGoals, goalsNextId, goalReqs,
          customFoodRows, customNextId, customResp,
          foodItems, foodNextId, foodResp>>

----------------------------------------------------------------------------
(* Bounds of the model *)

MaxNativeId == 2
MaxWaterReqs == 2
MaxBatchLen == 3
MaxIndianRows == 4
MaxSearches == 1
MaxOverlap == 2
TicksPerDelay == 2
MaxGoalReqs == 3
MaxGoalRows == 3
MaxCustomRows == 3
MaxFoodRows == 3

----------------------------------------------------------------------------
(* JavaScript values *)

Null == [null |-> TRUE]
NotRun == [notRun |-> TRUE]
Threw == [threw |-> "TypeError"]

IsResult(r) == "fdcId" \in DOMAIN r

\* obj.f || 0 for a numeric property: the property when it is present and
\* not 0, else 0
OrZero(obj, f) == IF f \in DOMAIN obj /\ obj[f] # 0 THEN obj[f] ELSE 0

\* obj.f || d for a text property: the property when it is present and not
\* the empty string, else d
OrText(obj, f, d) == IF f \in DOMAIN obj /\ obj[f] # "" THEN obj[f] ELSE d

----------------------------------------------------------------------------
(* Strings *)

CharAt(s, i) == SubSeq(s, i, i)

LowerChar(c) ==
    CASE c = "A" -> "a"
      [] c = "D" -> "d"
      [] c = "L" -> "l"
      [] OTHER -> c

RECURSIVE toLowerCase(_)
toLowerCase(s) ==
    IF Len(s) = 0 THEN "" ELSE LowerChar(CharAt(s, 1)) \o toLowerCase(Tail(s))

includes(s, q) ==
    \E i \in 1..(Len(s) - Len(q) + 1) : SubSeq(s, i, i + Len(q) - 1) = q

RECURSIVE trimStart(_)
trimStart(s) ==
    IF Len(s) > 0 /\ CharAt(s, 1) = " " THEN trimStart(Tail(s)) ELSE s

RECURSIVE trimEnd(_)
trimEnd(s) ==
    IF Len(s) > 0 /\ CharAt(s, Len(s)) = " "
    THEN trimEnd(SubSeq(s, 1, Len(s) - 1))
    ELSE s

trim(s) == trimEnd(trimStart(s))

----------------------------------------------------------------------------
(* Nutrient table: canonical nutrient id and the native field it is read   *)
(* from                                                                    *)

CALORIES_ID == 1008
PROTEIN_ID == 1003
CARBS_ID == 1005
FAT_ID == 1004
FIBER_ID == 1079
CALCIUM_ID == 1087
IRON_ID == 1089

NutrientFields ==
    {"calories", "protein", "carbs", "fat", "fiber", "calcium", "iron"}

CanonicalNutrients ==
    {<<CALORIES_ID, "calories">>, <<PROTEIN_ID, "protein">>,
     <<CARBS_ID, "carbs">>, <<FAT_ID, "fat">>, <<FIBER_ID, "fiber">>,
     <<CALCIUM_ID, "calcium">>, <<IRON_ID, "iron">>}

----------------------------------------------------------------------------
(* Source adapters *)

\* convertIndianFoodToSearchResult, with "indian-" replaced by "custom-"
convertIndianFoodToSearchResult_WrongPrefix(food) ==
    IF food = Null
    THEN [fdcId |-> "invalid-food", description |-> "Invalid food data",
          nutrients |-> <<>>, isIndianFood |-> TRUE]
    ELSE [fdcId |-> "custom-" \o ToString(food.id),
          description |-> OrText(food, "foodName", "Unknown Indian Food"),
          nutrients |-> <<
              [nutrientId |-> CALORIES_ID, value |-> OrZero(food, "calories")],
              [nutrientId |-> PROTEIN_ID, value |-> OrZero(food, "protein")],
              [nutrientId |-> CARBS_ID, value |-> OrZero(food, "carbs")],
              [nutrientId |-> FAT_ID, value |-> OrZero(food, "fat")],
              [nutrientId |-> FIBER_ID, value |-> OrZero(food, "fiber")],
              [nutrientId |-> CALCIUM_ID, value |-> OrZero(food, "calcium")],
              [nutrientId |-> IRON_ID, value |-> OrZero(food, "iron")] >>,
          foodGroup |-> OrText(food, "foodGroup", "Indian Foods"),
          isIndianFood |-> TRUE]

convertIndianFoodToSearchResult(food) ==
    IF food = Null
    THEN [fdcId |-> "invalid-food", description |-> "Invalid food data",
          nutrients |-> <<>>, isIndianFood |-> TRUE]
    ELSE [fdcId |-> "indian-" \o ToString(food.id),
          description |-> OrText(food, "foodName", "Unknown Indian Food"),
          nutrients |-> <<
              [nutrientId |-> CALORIES_ID, value |-> OrZero(food, "calories")],
              [nutrientId |-> PROTEIN_ID, value |-> OrZero(food, "protein")],
              [nutrientId |-> CARBS_ID, value |-> OrZero(food, "carbs")],
              [nutrientId |-> FAT_ID, value |-> OrZero(food, "fat")],
              [nutrientId |-> FIBER_ID, value |-> OrZero(food, "fiber")],
              [nutrientId |-> CALCIUM_ID, value |-> OrZero(food, "calcium")],
              [nutrientId |-> IRON_ID, value |-> OrZero(food, "iron")] >>,
          foodGroup |-> OrText(food, "foodGroup", "Indian Foods"),
          isIndianFood |-> TRUE]

\* { nutrientId, value: food[f] }: the value property is undefined (absent)
\* when the native field is
CustomNutrient(food, nid, f) ==
    IF f \in DOMAIN food
    THEN [nutrientId |-> nid, value |-> food[f]]
    ELSE [nutrientId |-> nid]

\* Reading food.id of null throws a TypeError.
convertCustomFoodToSearchResult(food) ==
    IF food = Null
    THEN Threw
    ELSE [fdcId |-> "custom-" \o ToString(food.id),
          description |-> food.foodName,
          nutrients |-> <<
              CustomNutrient(food, CALORIES_ID, "calories"),
              CustomNutrient(food, PROTEIN_ID, "protein"),
              CustomNutrient(food, CARBS_ID, "carbs"),
              CustomNutrient(food, FAT_ID, "fat") >>,
          foodGroup |-> OrText(food, "foodGroup", "Custom Foods"),
          isCustomFood |-> TRUE]

\* The USDA search result for a native USDA food: the upstream id as it is
\* and the upstream nutrient array.
UsdaSearchResult(raw) ==
    IF "foodNutrients" \in DOMAIN raw
    THEN [fdcId |-> ToString(raw.fdcId), description |-> raw.description,
          nutrients |-> raw.foodNutrients]
    ELSE [fdcId |-> ToString(raw.fdcId), description |-> raw.description]

----------------------------------------------------------------------------
(* The adapters applied to native records *)

Sources == {"usda", "indian", "custom"}

\* Per-100 values a stored food carries, by field
SampleValue(f) ==
    CASE f = "calories" -> 50
      [] f = "protein" -> 3
      [] f = "carbs" -> 12
      [] f = "fat" -> 2
      [] f = "fiber" -> 4
      [] f = "calcium" -> 5
      [] f = "iron" -> 1

\* Which nutrient fields a native record carries: none, all, or one
NutrientShapes == {{}, NutrientFields} \cup {{f} : f \in NutrientFields}

WithNutrients(base, shape) ==
    [k \in DOMAIN base \cup shape |->
        IF k \in DOMAIN base THEN base[k] ELSE SampleValue(k)]

NativeIndianFoods ==
    {WithNutrients(b, sh) :
        b \in {[id |-> i, foodName |-> "dal"] : i \in 1..MaxNativeId}
               \cup {[id |-> i] : i \in 1..MaxNativeId},
        sh \in NutrientShapes}

NativeCustomFoods ==
    {WithNutrients([id |-> i, foodName |-> "oats", userId |-> 1], sh) :
        i \in 1..MaxNativeId, sh \in NutrientShapes}

NativeUsdaFoods ==
    {[fdcId |-> i, description |-> "apple", foodNutrients |-> ns] :
        i \in 1..MaxNativeId,
        ns \in {<<>>, <<[nutrientId |-> CALORIES_ID, value |-> 52]>>}}

AdaptersIdle ==
    /\ adIn = [s \in Sources |-> NotRun]
    /\ adOut = [s \in Sources |-> NotRun]

WaterIdle ==
    /\ waterIntake = {}
    /\ waterNextId = 1
    /\ waterReqs = [r \in 1..MaxWaterReqs |-> [pc |-> "idle"]]
    /\ waterResp = [op |-> "none"]

IndianIdle ==
    /\ indianFoods = {}
    /\ indianNextId = 1
    /\ indianResp = [route |-> "none"]

GoalsIdle ==
    /\ userGoals = {}
    /\ goalsNextId = 1
    /\ goalReqs = [r \in 1..MaxGoalReqs |-> [pc |-> "idle"]]

CustomStoreIdle ==
    /\ customFoodRows = {}
    /\ customNextId = 1
    /\ customResp = [op |-> "none"]

FoodItemsIdle ==
    /\ foodItems = {}
    /\ foodNextId = 1
    /\ foodResp = [op |-> "none"]

\* TrackFoodForm as mounted: the useState initial values, and the search
\* effect has run once and set its timer
DEBOUNCE_MS == 500
TickMs == DEBOUNCE_MS \div TicksPerDelay

FormMounted ==
    /\ searchQuery = ""
    /\ searchMode = "all"
    /\ customFoods = <<>>
    /\ searchResults = <<>>
    /\ showResults = FALSE
    /\ timer = [armed |-> TRUE, left |-> DEBOUNCE_MS]
    /\ quietFor = 0
    /\ searches = <<>>
    /\ lastDone = [done |-> FALSE]
    /\ isSearching = FALSE
    /\ isSearchingIndian = FALSE
    /\ error = FALSE
    /\ selectedFood = <<>>
    /\ quantity = 100
    /\ posted = <<>>

InitAdapters ==
    /\ AdaptersIdle
    /\ WaterIdle
    /\ IndianIdle
    /\ GoalsIdle
    /\ CustomStoreIdle
    /\ FoodItemsIdle
    /\ FormMounted

ConvertIndian(food) ==
    /\ UNCHANGED <<waterVars, indianVars, clientVars, goalVars, customStoreVars, foodVars>>
    /\ adIn' = [adIn EXCEPT !["indian"] = food]
    /\ adOut' = [adOut EXCEPT !["indian"] = convertIndianFoodToSearchResult(food)]

ConvertCustom(food) ==
    /\ UNCHANGED <<waterVars, indianVars, clientVars, goalVars, customStoreVars, foodVars>>
    /\ adIn' = [adIn EXCEPT !["custom"] = food]
    /\ adOut' = [adOut EXCEPT !["custom"] = convertCustomFoodToSearchResult(food)]

ConvertUsda(raw) ==
    /\ UNCHANGED <<waterVars, indianVars, clientVars, goalVars, customStoreVars, foodVars>>
    /\ adIn' = [adIn EXCEPT !["usda"] = raw]
    /\ adOut' = [adOut EXCEPT !["usda"] = UsdaSearchResult(raw)]

NextAdapters ==
    \/ \E food \in NativeIndianFoods \cup {Null} : ConvertIndian(food)
    \/ \E food \in NativeCustomFoods \cup {Null} : ConvertCustom(food)
    \/ \E raw \in NativeUsdaFoods : ConvertUsda(raw)

SpecAdapters == InitAdapters /\ [][NextAdapters]_vars

(* C5: results of different sources never carry the same id (fdcId),       *)
(* whatever the native ids are, equal native ids included.                 *)
C5_IdsDisjointAcrossSources ==
    \A s \in Sources : \A t \in Sources \ {s} :
        (IsResult(adOut[s]) /\ IsResult(adOut[t]))
            => adOut[s].fdcId # adOut[t].fdcId

\* all three adapters have converted a record of the same native id
C5_Witness ==
    /\ \A s \in Sources : IsResult(adOut[s])
    /\ adIn["indian"] # Null /\ adIn["custom"] # Null
    /\ adIn["indian"].id = adIn["custom"].id
    /\ adIn["usda"].fdcId = adIn["custom"].id

(* C6: the curated and the custom adapter both give, for any native        *)
(* record, an entry for each of the seven canonical nutrient ids, equal to *)
(* the native field when present and 0 when it is missing.                 *)
C6_SevenNutrientSlots ==
    \A s \in {"indian", "custom"} :
        (adIn[s] # NotRun /\ adIn[s] # Null) =>
            /\ IsResult(adOut[s])
            /\ \A c \in CanonicalNutrients :
                  \E i \in DOMAIN adOut[s].nutrients :
                      LET n == adOut[s].nutrients[i] IN
                      /\ n.nutrientId = c[1]
                      /\ "value" \in DOMAIN n
                      /\ n.value = IF c[2] \in DOMAIN adIn[s] THEN adIn[s][c[2]] ELSE 0

(* C7: the curated and the custom adapter, given null, do not throw and    *)
(* return the placeholder "Invalid food data" with an empty nutrient list. *)
C7_MalformedGivesPlaceholder ==
    \A s \in {"indian", "custom"} :
        adIn[s] = Null =>
            /\ IsResult(adOut[s])
            /\ adOut[s].description = "Invalid food data"
            /\ adOut[s].nutrients = <<>>

----------------------------------------------------------------------------
(* Water intake: POST /water-intake and                                    *)
(* DatabaseStorage.createOrUpdateWaterIntake.  Each database statement is  *)
(* one step; a handler is suspended between its statements.  The table    *)
(* carries no unique constraint on (userId, date).                         *)

WaterUsers == {1, 2}
WaterDates == {"2024-01-01"}
WaterAmounts == {250, 500}
WaterGoals == {2000}

WaterBodies ==
    [userId : WaterUsers, date : WaterDates, amount : WaterAmounts,
     goal : WaterGoals]

\* select ... where userId = ? and date = ?
WaterRowsFor(userId, date) ==
    {w \in waterIntake : w.userId = userId /\ w.date = date}

\* POST /water-intake: the body parses and createOrUpdateWaterIntake is
\* entered; its select is issued.
PostWaterIntake(r, body) ==
    /\ waterReqs[r].pc = "idle"
    /\ waterReqs' = [waterReqs EXCEPT ![r] =
          [pc |-> "select", op |-> "post", data |-> body,
           noPrior |-> WaterRowsFor(body.userId, body.date) = {}]]
    /\ UNCHANGED <<waterIntake, waterNextId, waterResp>>
    /\ UNCHANGED <<adapterVars, indianVars, clientVars, goalVars, customStoreVars, foodVars>>

\* getWaterIntake whose select matches no row
getWaterIntake_FindsNothing(r) ==
    /\ waterReqs[r].pc = "select"
    /\ waterReqs' = [waterReqs EXCEPT ![r] =
          [pc |-> "write", existing |-> Null] @@ waterReqs[r]]
    /\ UNCHANGED <<waterIntake, waterNextId, waterResp>>
    /\ UNCHANGED <<adapterVars, indianVars, clientVars, goalVars, customStoreVars, foodVars>>

\* getWaterIntake: the select runs; result[0] is any one of the matching
\* rows (the statement has no ORDER BY), or undefined when there is none.
getWaterIntake(r) ==
    /\ waterReqs[r].pc = "select"
    /\ LET rows == WaterRowsFor(waterReqs[r].data.userId, waterReqs[r].data.date) IN
       \E existing \in (IF rows = {} THEN {Null} ELSE rows) :
           waterReqs' = [waterReqs EXCEPT ![r] =
               [pc |-> "write", existing |-> existing] @@ waterReqs[r]]
    /\ UNCHANGED <<waterIntake, waterNextId, waterResp>>
    /\ UNCHANGED <<adapterVars, indianVars, clientVars, goalVars, customStoreVars, foodVars>>

\* createOrUpdateWaterIntake after the select: update the row found, or
\* insert a new one; the POST handler then answers 201, the PATCH handler 200.
createOrUpdateWaterIntake(r) ==
    /\ waterReqs[r].pc = "write"
    /\ LET q == waterReqs[r]
           st == IF q.op = "post" THEN 201 ELSE 200
       IN
       IF q.existing # Null
       THEN /\ waterIntake' =
                 {IF w.id = q.existing.id
                  THEN [w EXCEPT !.amount = q.data.amount, !.goal = q.data.goal]
                  ELSE w : w \in waterIntake}
            /\ UNCHANGED waterNextId
            /\ waterReqs' = [waterReqs EXCEPT ![r] =
                  [pc |-> "done", status |-> st, id |-> q.existing.id] @@ q]
       ELSE /\ waterIntake' = waterIntake \cup
                 {[id |-> waterNextId, userId |-> q.data.userId,
                   date |-> q.data.date, amount |-> q.data.amount,
                   goal |-> q.data.goal]}
            /\ waterNextId' = waterNextId + 1
            /\ waterReqs' = [waterReqs EXCEPT ![r] =
                  [pc |-> "done", status |-> st, id |-> waterNextId] @@ q]
    /\ UNCHANGED waterResp
    /\ UNCHANGED <<adapterVars, indianVars, clientVars, goalVars, customStoreVars, foodVars>>

\* GET /water-intake that stores the default it answers
GetWaterIntake_StoresDefault(userId, date) ==
    /\ LET rows == WaterRowsFor(userId, date)
           default == [userId |-> userId, date |-> date, amount |-> 0, goal |-> 2000]
       IN IF rows = {}
          THEN /\ waterNextId <= MaxWaterReqs
               /\ waterIntake' = waterIntake \cup {[id |-> waterNextId] @@ default}
               /\ waterNextId' = waterNextId + 1
               /\ waterResp' = [op |-> "get", userId |-> userId, date |-> date,
                                status |-> 200, body |-> default]
          ELSE /\ \E intake \in rows :
                     waterResp' = [op |-> "get", userId |-> userId, date |-> date,
                                   status |-> 200, body |-> intake]
               /\ UNCHANGED <<waterIntake, waterNextId>>
    /\ UNCHANGED waterReqs
    /\ UNCHANGED <<adapterVars, indianVars, clientVars, goalVars, customStoreVars, foodVars>>

\* GET /water-intake?userId=&date=: the row getWaterIntake returns, or the
\* default object, which is only answered
GetWaterIntake(userId, date) ==
    /\ LET rows == WaterRowsFor(userId, date) IN
       \E intake \in (IF rows = {}
                      THEN {[userId |-> userId, date |-> date, amount |-> 0,
                             goal |-> 2000]}
                      ELSE rows) :
           waterResp' = [op |-> "get", userId |-> userId, date |-> date,
                         status |-> 200, body |-> intake]
    /\ UNCHANGED <<waterIntake, waterNextId, waterReqs>>
    /\ UNCHANGED <<adapterVars, indianVars, clientVars, goalVars, customStoreVars, foodVars>>

\* req.body of PATCH /water-intake/:id
WaterPatchBodies == {[amount |-> 0], [amount |-> 750], [goal |-> 2500], <<>>}

\* req.body.f || existing.f
BodyOrExisting(body, existing, f) ==
    IF f \in DOMAIN body /\ body[f] # 0 THEN body[f] ELSE existing[f]

\* PATCH /water-intake/:id up to the call of createOrUpdateWaterIntake: the
\* select by id, 404 without a row, else updatedData from the row and the body
PatchWaterIntake(r, id, body) ==
    /\ waterReqs[r].pc = "idle"
    /\ LET existingIntake == {w \in waterIntake : w.id = id} IN
       IF existingIntake = {}
       THEN waterReqs' = [waterReqs EXCEPT ![r] =
               [pc |-> "done", op |-> "patch", status |-> 404, target |-> id,
                body |-> body, noPrior |-> FALSE]]
       ELSE \E w \in existingIntake :
               waterReqs' = [waterReqs EXCEPT ![r] =
                   [pc |-> "select", op |-> "patch", target |-> id, body |-> body,
                    noPrior |-> FALSE,
                    data |-> [userId |-> w.userId, date |-> w.date,
                              amount |-> BodyOrExisting(body, w, "amount"),
                              goal |-> BodyOrExisting(body, w, "goal")]]]
    /\ UNCHANGED <<waterIntake, waterNextId, waterResp>>
    /\ UNCHANGED <<adapterVars, indianVars, clientVars, goalVars, customStoreVars, foodVars>>

InitWater ==
    /\ AdaptersIdle
    /\ WaterIdle
    /\ IndianIdle
    /\ GoalsIdle
    /\ CustomStoreIdle
    /\ FoodItemsIdle
    /\ FormMounted

NextWater ==
    \/ \E r \in 1..MaxWaterReqs : \E body \in WaterBodies : PostWaterIntake(r, body)
    \/ \E r \in 1..MaxWaterReqs : getWaterIntake(r)
    \/ \E r \in 1..MaxWaterReqs : createOrUpdateWaterIntake(r)
    \/ \E u \in WaterUsers : \E d \in WaterDates : GetWaterIntake(u, d)
    \/ \E r \in 1..MaxWaterReqs : \E id \in 1..MaxWaterReqs :
          \E body \in WaterPatchBodies : PatchWaterIntake(r, id, body)

SpecWater == InitWater /\ [][NextWater]_vars

(* C1: two createOrUpdateWaterIntake calls for the same (userId, date),    *)
(* both made when no record for the pair exists, leave exactly one record  *)
(* for the pair once both have completed, however their reads and writes  *)
(* interleave.                                                             *)
C1_OneRecordAfterConcurrentUpserts ==
    \A p \in 1..MaxWaterReqs : \A q \in 1..MaxWaterReqs \ {p} :
        (/\ waterReqs[p].pc = "done" /\ waterReqs[q].pc = "done"
         /\ waterReqs[p].noPrior /\ waterReqs[q].noPrior
         /\ waterReqs[p].data.userId = waterReqs[q].data.userId
         /\ waterReqs[p].data.date = waterReqs[q].data.date)
        => Cardinality(WaterRowsFor(waterReqs[p].data.userId,
                                    waterReqs[p].data.date)) = 1

\* every earlier request has been answered and has left its slot
NoCallInFlight == \A r \in 1..MaxWaterReqs : waterReqs[r].pc = "idle"

\* the response of a handler has been sent: its slot serves the next request
WaterRequestEnds(r) ==
    /\ waterReqs[r].pc = "done"
    /\ waterReqs' = [waterReqs EXCEPT ![r] = [pc |-> "idle"]]
    /\ UNCHANGED <<waterIntake, waterNextId, waterResp>>
    /\ UNCHANGED <<adapterVars, indianVars, clientVars, goalVars, customStoreVars, foodVars>>

\* the water-intake routes, a request arriving only when no call of
\* createOrUpdateWaterIntake is under way
NextWaterInTurn ==
    \/ \E r \in 1..MaxWaterReqs : \E body \in WaterBodies :
          NoCallInFlight /\ PostWaterIntake(r, body)
    \/ \E r \in 1..MaxWaterReqs : \E id \in 1..MaxWaterReqs :
          \E body \in WaterPatchBodies : NoCallInFlight /\ PatchWaterIntake(r, id, body)
    \/ \E r \in 1..MaxWaterReqs : getWaterIntake(r)
    \/ \E r \in 1..MaxWaterReqs : createOrUpdateWaterIntake(r)
    \/ \E r \in 1..MaxWaterReqs : WaterRequestEnds(r)

SpecWaterInTurn == InitWater /\ [][NextWaterInTurn]_vars

(* C21: createOrUpdateWaterIntake calls that do not overlap, from an empty *)
(* store: the first call for a (userId, date) inserts one record, every    *)
(* later call for the pair updates that record in place (same id), so each *)
(* pair has at most one record, holding the amount and goal of the most    *)
(* recent call for it; the records of other pairs are left as they are.    *)
C21_UpsertInTurnKeepsOneRecord ==
    [][/\ \A u \in WaterUsers : \A d \in WaterDates :
             Cardinality({w \in waterIntake' : w.userId = u /\ w.date = d}) <= 1
       /\ \A r \in 1..MaxWaterReqs :
             (waterReqs[r].pc = "write" /\ waterReqs'[r].pc = "done") =>
                LET data == waterReqs[r].data
                    before == WaterRowsFor(data.userId, data.date)
                    after == {w \in waterIntake' :
                                 w.userId = data.userId /\ w.date = data.date}
                IN /\ \A w \in after : w.amount = data.amount /\ w.goal = data.goal
                   /\ Cardinality(after) = 1
                   /\ before # {} => {w.id : w \in after} = {w.id : w \in before}
                   /\ before = {} => \A w \in after : \A v \in waterIntake : w.id # v.id
                   /\ waterIntake' \ after = waterIntake \ before
      ]_vars

\* a second POST for a pair has updated the pair's only record to its amount
C21_Witness ==
    \E r \in 1..MaxWaterReqs :
        /\ waterReqs[r].pc = "done"
        /\ waterReqs[r].op = "post"
        /\ ~waterReqs[r].noPrior
        /\ waterReqs[r].data.amount = 500
        /\ \E w \in waterIntake :
              /\ w.id = waterReqs[r].id
              /\ w.amount = 500
              /\ Cardinality(WaterRowsFor(w.userId, w.date)) = 1
        /\ Cardinality(waterIntake) = 2

(* C17: GET /water-intake does not change the store: for a (userId, date) *)
(* with a record it answers that record, for one without it answers a      *)
(* synthesized record with amount 0 and goal 2000, and the stored records  *)
(* are the same after the request as before, however often it is repeated. *)
C17_GetWaterIntakeLeavesStore ==
    [][waterResp' # waterResp =>
          LET a == waterResp'
              rows == WaterRowsFor(a.userId, a.date)
          IN /\ waterIntake' = waterIntake
             /\ waterNextId' = waterNextId
             /\ a.status = 200
             /\ rows # {} => a.body \in rows
             /\ rows = {} =>
                   /\ a.body.userId = a.userId /\ a.body.date = a.date
                   /\ a.body.amount = 0 /\ a.body.goal = 2000
      ]_vars

\* a GET for a pair without a record has been answered the default while
\* another pair has its record, and nothing was stored for the pair
C17_Witness ==
    /\ waterResp.op = "get"
    /\ waterResp.body.amount = 0
    /\ waterResp.body.goal = 2000
    /\ WaterRowsFor(waterResp.userId, waterResp.date) = {}
    /\ waterIntake # {}

(* C18: PATCH /water-intake/:id is a partial override on the located       *)
(* record: the record with that id ends with the body's amount when the    *)
(* body gives one (0 included) and its prior amount otherwise, likewise    *)
(* for goal, with userId and date unchanged; for an id without a record    *)
(* the answer is 404 and the store is unchanged.                           *)
C18_PatchWaterIsPartialOverride ==
    [][\A r \in 1..MaxWaterReqs :
          /\ (waterReqs[r].pc = "write" /\ waterReqs[r].op = "patch"
                /\ waterReqs'[r].pc = "done") =>
                LET q == waterReqs[r]
                    before == CHOOSE w \in waterIntake : w.id = q.target
                    after == CHOOSE w \in waterIntake' : w.id = q.target
                IN /\ \E w \in waterIntake : w.id = q.target
                   /\ \E w \in waterIntake' : w.id = q.target
                   /\ after.amount = IF "amount" \in DOMAIN q.body
                                     THEN q.body.amount ELSE before.amount
                   /\ after.goal = IF "goal" \in DOMAIN q.body
                                   THEN q.body.goal ELSE before.goal
                   /\ after.userId = before.userId /\ after.date = before.date
          /\ (waterReqs[r].pc = "idle" /\ waterReqs'[r].pc = "done") =>
                /\ waterReqs'[r].status = 404
                /\ waterIntake' = waterIntake
      ]_vars

----------------------------------------------------------------------------
(* Curated foods: POST /indian-foods, POST /indian-foods/batch and         *)
(* DatabaseStorage.createIndianFood / createManyIndianFoods                *)

\* insertIndianFoodSchema.parse: the element carries the required columns
insertIndianFoodSchemaAccepts(food) ==
    "foodName" \in DOMAIN food /\ "calories" \in DOMAIN food

BatchElements ==
    {[foodName |-> "dal", calories |-> 50],
     [foodName |-> "roti", calories |-> 120],
     [calories |-> 50]}

BatchBodies ==
    {[isArray |-> FALSE]} \cup
    {[isArray |-> TRUE, items |-> it] :
        it \in UNION {[1..n -> BatchElements] : n \in 0..MaxBatchLen}}

\* insert into indian_foods values (...), one statement: the rows get the
\* next serial ids in the order of the values
InsertedRows(foods) ==
    {[id |-> indianNextId + i - 1, foodName |-> foods[i].foodName,
      calories |-> foods[i].calories] : i \in 1..Len(foods)}

RECURSIVE ValidPrefix(_)
ValidPrefix(foods) ==
    IF Len(foods) = 0 \/ ~insertIndianFoodSchemaAccepts(Head(foods))
    THEN <<>>
    ELSE <<Head(foods)>> \o ValidPrefix(Tail(foods))

\* the batch handler, with each element parsed and inserted in turn
BatchOutcome_InsertsAsItParses(body) ==
    IF ~body.isArray
    THEN [status |-> 400, inserted |-> <<>>]
    ELSE IF \E i \in 1..Len(body.items) : ~insertIndianFoodSchemaAccepts(body.items[i])
    THEN [status |-> 400, inserted |-> ValidPrefix(body.items)]
    ELSE [status |-> 201, inserted |-> body.items]

\* POST /indian-foods/batch: the status, and the foods handed to the one
\* insert statement of createManyIndianFoods (none when an element fails
\* to parse, or when the array is empty)
BatchOutcome(body) ==
    IF ~body.isArray
    THEN [status |-> 400, inserted |-> <<>>]
    ELSE IF \E i \in 1..Len(body.items) : ~insertIndianFoodSchemaAccepts(body.items[i])
    THEN [status |-> 400, inserted |-> <<>>]
    ELSE [status |-> 201, inserted |-> body.items]

PostIndianFoodsBatch(body) ==
    /\ body.isArray => Cardinality(indianFoods) + Len(body.items) <= MaxIndianRows
    /\ LET out == BatchOutcome(body) IN
       /\ indianFoods' = indianFoods \cup InsertedRows(out.inserted)
       /\ indianNextId' = indianNextId + Len(out.inserted)
       /\ indianResp' = [route |-> "batch", body |-> body, status |-> out.status]
    /\ UNCHANGED <<adapterVars, waterVars, clientVars, goalVars, customStoreVars, foodVars>>

\* POST /indian-foods
PostIndianFood(food) ==
    /\ Cardinality(indianFoods) + 1 <= MaxIndianRows
    /\ IF insertIndianFoodSchemaAccepts(food)
       THEN /\ indianFoods' = indianFoods \cup InsertedRows(<<food>>)
            /\ indianNextId' = indianNextId + 1
            /\ indianResp' = [route |-> "single", body |-> food, status |-> 201]
       ELSE /\ UNCHANGED <<indianFoods, indianNextId>>
            /\ indianResp' = [route |-> "single", body |-> food, status |-> 400]
    /\ UNCHANGED <<adapterVars, waterVars, clientVars, goalVars, customStoreVars, foodVars>>

InitIndian ==
    /\ AdaptersIdle
    /\ WaterIdle
    /\ IndianIdle
    /\ GoalsIdle
    /\ CustomStoreIdle
    /\ FoodItemsIdle
    /\ FormMounted

NextIndian ==
    \/ \E body \in BatchBodies : PostIndianFoodsBatch(body)
    \/ \E food \in BatchElements : PostIndianFood(food)

SpecIndian == InitIndian /\ [][NextIndian]_vars

(* C10: POST /indian-foods/batch is all-or-nothing.  A request whose array *)
(* holds an element that fails validation, at any position, is answered    *)
(* 400 and leaves the stored curated foods as they were; a request whose   *)
(* elements all validate is answered 201 and stores every element.         *)
C10_BatchAllOrNothing ==
    [][(indianResp'.route = "batch" /\ indianResp'.body.isArray) =>
          LET items == indianResp'.body.items IN
          IF \E i \in 1..Len(items) : ~insertIndianFoodSchemaAccepts(items[i])
          THEN /\ indianResp'.status = 400
               /\ indianFoods' = indianFoods
          ELSE /\ indianResp'.status = 201
               /\ indianFoods \subseteq indianFoods'
               /\ Cardinality(indianFoods') = Cardinality(indianFoods) + Len(items)
               /\ \A i \in 1..Len(items) :
                     \E row \in indianFoods' \ indianFoods :
                         /\ row.foodName = items[i].foodName
                         /\ row.id = indianNextId + i - 1
    ]_vars

\* a 3-element batch whose second element alone is invalid was answered 400
\* while the table already held rows
C10_Witness ==
    /\ indianResp.route = "batch"
    /\ indianResp.body.isArray
    /\ Len(indianResp.body.items) = 3
    /\ insertIndianFoodSchemaAccepts(indianResp.body.items[1])
    /\ ~insertIndianFoodSchemaAccepts(indianResp.body.items[2])
    /\ insertIndianFoodSchemaAccepts(indianResp.body.items[3])
    /\ indianResp.status = 400
    /\ indianFoods # {}

----------------------------------------------------------------------------
(* Food search: the sources                                                *)

RECURSIVE MapIndian(_)
MapIndian(rows) ==
    IF rows = <<>> THEN <<>>
    ELSE <<convertIndianFoodToSearchResult(Head(rows))>> \o MapIndian(Tail(rows))

RECURSIVE MapCustom(_)
MapCustom(rows) ==
    IF rows = <<>> THEN <<>>
    ELSE <<convertCustomFoodToSearchResult(Head(rows))>> \o MapCustom(Tail(rows))

\* GET /api/custom-foods?userId=1: the user's custom foods, by foodName
StoredCustomFoods ==
    << [id |-> 1, userId |-> 1, foodName |-> "Dal fry", calories |-> 180,
        protein |-> 9, carbs |-> 20, fat |-> 7] >>

\* the indian_foods table the search runs on
StoredIndianFoods ==
    << [id |-> 1, foodName |-> "dal", calories |-> 50, protein |-> 3,
        carbs |-> 12, fat |-> 2, fiber |-> 4, calcium |-> 5, iron |-> 1],
       [id |-> 2, foodName |-> "dahi", calories |-> 60, protein |-> 3,
        calcium |-> 5] >>

SEARCH_LIMIT == 20

\* DatabaseStorage.searchIndianFoods: foodName ilike %query%, limit 20
StorageSearchIndianFoods(query) ==
    LET hits == SelectSeq(StoredIndianFoods,
                    LAMBDA f : includes(toLowerCase(f.foodName), toLowerCase(query)))
    IN SubSeq(hits, 1, IF Len(hits) < SEARCH_LIMIT THEN Len(hits) ELSE SEARCH_LIMIT)

\* searchIndianFoods(query) of lib/api settles: rejected, or the rows of
\* GET /api/indian-foods/search
IndianApiOutcomes(query) ==
    {[st |-> "rejected"], [st |-> "ok", rows |-> StorageSearchIndianFoods(query)]}

\* searchFoodsApi(query) of lib/api settles: rejected, or some USDA results
UsdaApiOutcomes(query) ==
    {[st |-> "rejected"],
     [st |-> "ok", rows |->
        << UsdaSearchResult(
             [fdcId |-> 1, description |-> "dates",
              foodNutrients |-> <<[nutrientId |-> CALORIES_ID, value |-> 282],
                                  [nutrientId |-> FIBER_ID, value |-> 8]>>]),
           UsdaSearchResult([fdcId |-> 2, description |-> "soda"]) >>]}

Pending == [st |-> "pending"]
NotAsked == [st |-> "notAsked"]

Delivered(slot) == IF slot.st = "ok" THEN slot.rows ELSE <<>>

\* customFoods.filter(food => food.foodName.toLowerCase().includes(
\* searchQuery.toLowerCase())).map(convertCustomFoodToSearchResult)
CustomResults(list, query) ==
    MapCustom(SelectSeq(list,
        LAMBDA f : includes(toLowerCase(f.foodName), toLowerCase(query))))

----------------------------------------------------------------------------
(* useNutritionApi: what each search function returns once its awaited     *)
(* calls have settled                                                      *)

\* searchFoods: the USDA results, or [] when the call rejected
searchFoods(usda) == Delivered(usda)

\* searchIndianFoodsWithFormat: the converted rows, or [] when rejected
searchIndianFoodsWithFormat(indian) == MapIndian(Delivered(indian))

\* searchAllFoods with the two lists swapped
searchAllFoods_UsdaFirst(usda, indian) ==
    Delivered(usda) \o MapIndian(Delivered(indian))

\* searchAllFoods without the per-call catch: one rejection rejects
\* Promise.all, and the outer catch returns []
searchAllFoods_NoCatch(usda, indian) ==
    IF usda.st = "rejected" \/ indian.st = "rejected"
    THEN <<>>
    ELSE MapIndian(Delivered(indian)) \o Delivered(usda)

\* searchAllFoods: Promise.all of the two calls, each with .catch(() => []);
\* the converted Indian foods first, then the USDA results
searchAllFoods(usda, indian) ==
    MapIndian(Delivered(indian)) \o Delivered(usda)

\* the results the effect callback sets for a search whose calls settled
EffectResults(s) ==
    CASE s.mode = "indian" -> searchIndianFoodsWithFormat(s.indian)
      [] s.mode = "usda" -> searchFoods(s.usda)
      [] s.mode = "custom" ->
            IF s.custom # <<>> THEN CustomResults(s.custom[1], s.query) ELSE <<>>
      [] s.mode = "all" ->
            (IF s.custom # <<>> THEN CustomResults(s.custom[1], s.query) ELSE <<>>)
            \o searchAllFoods(s.usda, s.indian)

----------------------------------------------------------------------------
(* TrackFoodForm: the search effect.  Every change of searchQuery,         *)
(* searchMode or customFoods cleans the effect up (clearTimeout) and runs  *)
(* it again (setTimeout 500).                                              *)

QueryInputs == {"", "d", "l ", "da"}
SearchModes == {"all", "indian", "usda", "custom"}

\* the effect run again without its cleanup stopping the running timer
Rearmed_NotCancelled ==
    [armed |-> TRUE, left |-> IF timer.armed THEN timer.left ELSE DEBOUNCE_MS]

Rearmed == [armed |-> TRUE, left |-> DEBOUNCE_MS]
Cleared == [armed |-> FALSE, left |-> 0]

otherThanSearch == <<adapterVars, waterVars, indianVars, calcVars,
                    goalVars, customStoreVars, foodVars>>

\* onChange of the search box
SetSearchQuery(q) ==
    /\ q # searchQuery
    /\ searchQuery' = q
    /\ quietFor' = 0
    /\ timer' = Rearmed
    /\ UNCHANGED <<searchMode, customFoods, searchResults, showResults,
                   searches, lastDone, isSearching, isSearchingIndian, error>>
    /\ UNCHANGED otherThanSearch

\* onValueChange of the tabs
SetSearchMode(m) ==
    /\ m # searchMode
    /\ searchMode' = m
    /\ quietFor' = 0
    /\ timer' = Rearmed
    /\ UNCHANGED <<searchQuery, customFoods, searchResults, showResults,
                   searches, lastDone, isSearching, isSearchingIndian, error>>
    /\ UNCHANGED otherThanSearch

\* the custom-foods query delivers its data
CustomFoodsLoaded ==
    /\ customFoods = <<>>
    /\ customFoods' = <<StoredCustomFoods>>
    /\ timer' = Rearmed
    /\ UNCHANGED <<searchQuery, searchMode, searchResults, showResults,
                   searches, lastDone, isSearching, isSearchingIndian, error>>
    /\ UNCHANGED quietFor
    /\ UNCHANGED otherThanSearch

\* time passes while the timer runs
Tick ==
    /\ timer.armed /\ timer.left > 0
    /\ timer' = [timer EXCEPT !.left = IF timer.left > TickMs
                                      THEN timer.left - TickMs ELSE 0]
    /\ quietFor' = IF quietFor + TickMs >= DEBOUNCE_MS
                   THEN DEBOUNCE_MS ELSE quietFor + TickMs
    /\ UNCHANGED <<searchQuery, searchMode, customFoods, searchResults,
                   showResults, searches, lastDone, isSearching,
                   isSearchingIndian, error>>
    /\ UNCHANGED otherThanSearch

\* whether the search function of the hook that the mode calls goes on to
\* its API calls: its own test is on the trimmed query
NeedsApi(mode, query) ==
    mode \in {"all", "indian", "usda"} /\ Len(trim(query)) >= 2

\* the callback's closure (searchQuery, searchMode, and customFoods in the
\* modes that read it) and the API calls it awaits
ThisSearch ==
    [query |-> searchQuery, mode |-> searchMode,
     custom |-> IF searchMode \in {"all", "custom"} THEN customFoods ELSE <<>>,
     usda |-> IF searchMode \in {"all", "usda"} /\ NeedsApi(searchMode, searchQuery)
              THEN Pending ELSE NotAsked,
     indian |-> IF searchMode \in {"all", "indian"} /\ NeedsApi(searchMode, searchQuery)
                THEN Pending ELSE NotAsked]

\* the sources a callback went to: the APIs it called, and customFoods
\* when it ran the filter on it
ConsultedBy(s) ==
    (IF s.mode \in {"all", "custom"} /\ s.custom # <<>> THEN {"custom"} ELSE {})
    \cup (IF s.usda # NotAsked THEN {"usda"} ELSE {})
    \cup (IF s.indian # NotAsked THEN {"indian"} ELSE {})

\* the timer callback, searchQuery.length < 2: the else branch, which reads
\* neither the mode nor customFoods
TimerFireShort ==
    /\ timer.armed /\ timer.left = 0
    /\ Len(searchQuery) < 2
    /\ timer' = Cleared
    /\ searchResults' = <<>>
    /\ showResults' = FALSE
    /\ lastDone' = [done |-> TRUE,
                    search |-> [ThisSearch EXCEPT !.custom = <<>>, !.mode = "any"],
                    consulted |-> {}, errorSet |-> FALSE]
    /\ UNCHANGED <<searchQuery, searchMode, customFoods, searches,
                   isSearching, isSearchingIndian, error>>
    /\ UNCHANGED quietFor
    /\ UNCHANGED otherThanSearch

\* the timer callback, searchQuery.length >= 2, nothing to await: custom
\* mode, or a search function of the hook that returns [] at once because
\* the trimmed query is shorter than 2
TimerFireLocal ==
    /\ timer.armed /\ timer.left = 0
    /\ Len(searchQuery) >= 2
    /\ ~NeedsApi(searchMode, searchQuery)
    /\ timer' = Cleared
    /\ searchResults' = EffectResults(ThisSearch)
    /\ showResults' = TRUE
    /\ lastDone' = [done |-> TRUE, search |-> ThisSearch,
                    consulted |-> ConsultedBy(ThisSearch), errorSet |-> FALSE]
    /\ UNCHANGED <<searchQuery, searchMode, customFoods, searches,
                   isSearching, isSearchingIndian, error>>
    /\ UNCHANGED quietFor
    /\ UNCHANGED otherThanSearch

\* the timer callback, searchQuery.length >= 2, calling searchIndianFoods,
\* searchFoods or searchAllFoods, which sets its flag, clears the error and
\* awaits its API calls
TimerFireDispatchWithin(most) ==
    /\ timer.armed /\ timer.left = 0
    /\ Len(searchQuery) >= 2
    /\ NeedsApi(searchMode, searchQuery)
    /\ Len(searches) < most
    /\ timer' = Cleared
    /\ searches' = Append(searches, ThisSearch)
    /\ IF searchMode = "indian"
       THEN isSearchingIndian' = TRUE /\ UNCHANGED isSearching
       ELSE isSearching' = TRUE /\ UNCHANGED isSearchingIndian
    /\ error' = FALSE
    /\ UNCHANGED <<searchQuery, searchMode, customFoods, searchResults,
                   showResults, lastDone>>
    /\ UNCHANGED quietFor
    /\ UNCHANGED otherThanSearch

TimerFireDispatch == TimerFireDispatchWithin(MaxSearches)

Without(seq, i) == SubSeq(seq, 1, i - 1) \o SubSeq(seq, i + 1, Len(seq))

\* an API call of the i-th waiting search settles; when it was the last
\* one the search function returns and the callback sets the results
SourceSettles(i, src, outcome) ==
    /\ i \in 1..Len(searches)
    /\ searches[i][src] = Pending
    /\ LET t == [searches[i] EXCEPT ![src] = outcome] IN
       IF t.usda = Pending \/ t.indian = Pending
       THEN /\ searches' = [searches EXCEPT ![i] = t]
            /\ UNCHANGED <<searchResults, showResults, lastDone, isSearching,
                           isSearchingIndian, error>>
       ELSE /\ searches' = Without(searches, i)
            /\ searchResults' = EffectResults(t)
            /\ showResults' = TRUE
            /\ IF t.mode = "indian"
               THEN isSearchingIndian' = FALSE /\ UNCHANGED isSearching
               ELSE isSearching' = FALSE /\ UNCHANGED isSearchingIndian
            /\ error' = IF t.mode # "all" /\ outcome.st = "rejected"
                        THEN TRUE ELSE error
            /\ lastDone' = [done |-> TRUE, search |-> t,
                            consulted |-> ConsultedBy(t),
                            errorSet |-> (t.mode # "all" /\ outcome.st = "rejected")]
    /\ UNCHANGED quietFor
    /\ UNCHANGED <<searchQuery, searchMode, customFoods, timer>>
    /\ UNCHANGED otherThanSearch

InitSearch ==
    /\ AdaptersIdle
    /\ WaterIdle
    /\ IndianIdle
    /\ GoalsIdle
    /\ CustomStoreIdle
    /\ FoodItemsIdle
    /\ FormMounted

NextSearch ==
    \/ \E q \in QueryInputs : SetSearchQuery(q)
    \/ \E m \in SearchModes : SetSearchMode(m)
    \/ CustomFoodsLoaded
    \/ Tick
    \/ TimerFireShort
    \/ TimerFireLocal
    \/ TimerFireDispatch
    \/ \E i \in 1..Len(searches) : \E o \in UsdaApiOutcomes(searches[i].query) :
          SourceSettles(i, "usda", o)
    \/ \E i \in 1..Len(searches) : \E o \in IndianApiOutcomes(searches[i].query) :
          SourceSettles(i, "indian", o)

SpecSearch == InitSearch /\ [][NextSearch]_vars

\* 1 for a custom result, 2 for a curated (Indian) one, 3 for a USDA one
SourceRank(r) ==
    IF "isCustomFood" \in DOMAIN r THEN 1
    ELSE IF "isIndianFood" \in DOMAIN r THEN 2 ELSE 3

OfRank(results, k) == SelectSeq(results, LAMBDA r : SourceRank(r) = k)

(* C2: in 'all' mode the result list set by a search is the matching       *)
(* custom results, then the curated results, then the USDA results: no     *)
(* result of a later source stands before one of an earlier source.        *)
C2_AllModeCustomCuratedUsda ==
    (lastDone.done /\ lastDone.search.mode = "all") =>
        LET t == lastDone.search IN
        /\ \A i \in 1..Len(searchResults) : \A j \in 1..Len(searchResults) :
              i < j => SourceRank(searchResults[i]) <= SourceRank(searchResults[j])
        /\ OfRank(searchResults, 1) =
              (IF t.custom = <<>> THEN <<>> ELSE CustomResults(t.custom[1], t.query))
        /\ OfRank(searchResults, 2) = MapIndian(Delivered(t.indian))
        /\ OfRank(searchResults, 3) = Delivered(t.usda)

\* an 'all' search has set a list holding a result of each source
C2_Witness ==
    /\ lastDone.done
    /\ lastDone.search.mode = "all"
    /\ Len(lastDone.search.query) >= 2
    /\ \A k \in 1..3 : OfRank(searchResults, k) # <<>>

(* C3: in every mode a search for a query whose trimmed length is below 2  *)
(* (empty, one character, one character padded with whitespace) sets an    *)
(* empty result list and consults no source.                               *)
C3_ShortQueryEmptyAndNoSource ==
    (lastDone.done /\ Len(trim(lastDone.search.query)) < 2) =>
        /\ searchResults = <<>>
        /\ lastDone.consulted = {}

(* C4: in 'all' mode, whichever of the sources fail (the USDA call         *)
(* rejects, the curated call rejects, customFoods is unavailable), the     *)
(* search itself sets no error and the list is exactly the results of the  *)
(* sources that succeeded, custom first, then curated, then USDA.          *)
C4_AllModeIsolatesFailures ==
    (lastDone.done /\ lastDone.search.mode = "all"
        /\ Len(trim(lastDone.search.query)) >= 2) =>
        LET t == lastDone.search
            fromCustom == IF t.custom = <<>> THEN <<>>
                          ELSE CustomResults(t.custom[1], t.query)
            fromIndian == IF t.indian.st = "rejected" THEN <<>>
                          ELSE MapIndian(t.indian.rows)
            fromUsda == IF t.usda.st = "rejected" THEN <<>> ELSE t.usda.rows
        IN /\ ~lastDone.errorSet
           /\ searchResults = fromCustom \o fromIndian \o fromUsda

\* an 'all' search whose USDA call rejected, with customFoods unavailable,
\* has set the curated results
C4_Witness ==
    /\ lastDone.done
    /\ lastDone.search.mode = "all"
    /\ lastDone.search.usda.st = "rejected"
    /\ lastDone.search.indian.st = "ok"
    /\ lastDone.search.custom = <<>>
    /\ searchResults # <<>>
    /\ searchResults = MapIndian(lastDone.search.indian.rows)

\* the source of a single-source search failed or could not be consulted
SingleSourceFailed(t) ==
    \/ t.mode = "usda" /\ t.usda.st = "rejected"
    \/ t.mode = "indian" /\ t.indian.st = "rejected"
    \/ t.mode = "custom" /\ Len(trim(t.query)) >= 2 /\ t.custom = <<>>

(* C14: in each single-source mode (usda, indian, custom), a search whose  *)
(* source fails or cannot be consulted sets an empty result list together  *)
(* with the error flag.                                                    *)
C14_SingleSourceFailureSetsError ==
    (lastDone.done /\ SingleSourceFailed(lastDone.search)) =>
        /\ searchResults = <<>>
        /\ lastDone.errorSet

(* C15: in 'all' mode the result list is set only after each of the three  *)
(* sources (USDA, curated, custom) has delivered or failed: the custom     *)
(* foods are not still on their way when the merged list is produced.      *)
C15_AllModeWaitsForEverySource ==
    (lastDone.done /\ lastDone.search.mode = "all"
        /\ Len(trim(lastDone.search.query)) >= 2) =>
        /\ lastDone.search.usda.st \in {"ok", "rejected"}
        /\ lastDone.search.indian.st \in {"ok", "rejected"}
        /\ lastDone.search.custom # <<>>

\* this step runs the timer callback
CallbackRuns == timer.armed /\ ~timer'.armed

(* C16: debounce: the timer callback runs, and so a search is dispatched,  *)
(* only when searchQuery and searchMode have stayed unchanged for the full *)
(* 500 ms, and the search is for their current values; every change of     *)
(* either within the window cancels the pending dispatch and starts a full *)
(* window again, so a burst of changes gives at most one dispatch, for the *)
(* last value.                                                             *)
C16_DispatchOnlyAfterQuietWindow ==
    [][/\ CallbackRuns =>
            /\ quietFor >= DEBOUNCE_MS
            /\ searchQuery' = searchQuery /\ searchMode' = searchMode
            /\ Len(searches') > Len(searches) =>
                  /\ searches'[Len(searches')].query = searchQuery
                  /\ searches'[Len(searches')].mode = searchMode
       /\ (searchQuery' # searchQuery \/ searchMode' # searchMode) =>
            /\ ~CallbackRuns
            /\ searches' = searches /\ lastDone' = lastDone
            /\ quietFor' = 0
       /\ Len(searches') > Len(searches) => CallbackRuns
      ]_vars

\* a search for the current query has been dispatched after a quiet window
C16_Witness ==
    /\ searches # <<>>
    /\ searches[1].query = searchQuery
    /\ searches[1].mode = searchMode
    /\ ~timer.armed
    /\ quietFor = DEBOUNCE_MS

----------------------------------------------------------------------------
(* The search effect with searches that overlap: the timer callback of a   *)
(* later query runs while the calls of an earlier one are still awaited.   *)
(* Nothing in the effect or in the hook cancels or ignores the earlier     *)
(* call.                                                                   *)

OverlapQueries == {"da", "dah"}

InitOverlap ==
    /\ AdaptersIdle
    /\ WaterIdle
    /\ IndianIdle
    /\ GoalsIdle
    /\ CustomStoreIdle
    /\ FoodItemsIdle
    /\ FormMounted

NextOverlap ==
    \/ \E q \in OverlapQueries : SetSearchQuery(q)
    \/ Tick
    \/ TimerFireShort
    \/ TimerFireDispatchWithin(MaxOverlap)
    \/ \E i \in 1..Len(searches) : \E o \in UsdaApiOutcomes(searches[i].query) :
          SourceSettles(i, "usda", o)
    \/ \E i \in 1..Len(searches) : \E o \in IndianApiOutcomes(searches[i].query) :
          SourceSettles(i, "indian", o)

SpecOverlap == InitOverlap /\ [][NextOverlap]_vars

\* the callback of the current query has run and every search it or an
\* earlier callback dispatched has completed
SearchesAtRest ==
    /\ ~timer.armed
    /\ NeedsApi(searchMode, searchQuery)
    /\ searches = <<>>
    /\ lastDone.done

(* C22: the result list shown belongs to the most recently dispatched      *)
(* search: once the searches for an earlier query q1 and a later query q2  *)
(* have both completed, in whichever order, the list set last is the one   *)
(* computed for q2 (the current query), never the one for q1.              *)
C22_ShownResultsAreOfLatestSearch ==
    SearchesAtRest =>
        /\ lastDone.search.query = searchQuery
        /\ searchResults = EffectResults(lastDone.search)

(* C23: the hook's isSearching (isSearching || isSearchingIndian) is true  *)
(* in every state where a started search call has not completed, several   *)
(* overlapping calls included, and false once every started call has       *)
(* completed.                                                              *)
C23_IsSearchingWhileAnyCallPending ==
    (searches # <<>>) <=> (isSearching \/ isSearchingIndian)

----------------------------------------------------------------------------
(* TrackFoodForm: selecting a result, the quantity, and adding the food    *)

\* a float n / d, exactly
Frac(n, d) == [num |-> n, den |-> d]

\* value * multiplier
Times(value, m) == Frac(value * m.num, m.den)

\* Math.round of a fraction that is not negative
MathRound(x) == (2 * x.num + x.den) \div (2 * x.den)

\* getNutrientValue(food.nutrients, nutrientId): 0 when the list is missing
\* or holds no entry of the id, else the value of the first such entry
\* (every entry of the results searched here carries a value)
getNutrientValue(food, nutrientId) ==
    IF "nutrients" \notin DOMAIN food
    THEN 0
    ELSE LET hits == SelectSeq(food.nutrients, LAMBDA n : n.nutrientId = nutrientId)
         IN IF hits = <<>> THEN 0 ELSE hits[1].value

\* calculateNutrition with every product rounded
calculateNutrition_Rounded(food, multiplier) ==
    [calories |-> Frac(MathRound(Times(getNutrientValue(food, CALORIES_ID), multiplier)), 1),
     protein |-> Frac(MathRound(Times(getNutrientValue(food, PROTEIN_ID), multiplier)), 1),
     carbs |-> Frac(MathRound(Times(getNutrientValue(food, CARBS_ID), multiplier)), 1),
     fat |-> Frac(MathRound(Times(getNutrientValue(food, FAT_ID), multiplier)), 1)]

calculateNutrition(food, multiplier) ==
    [calories |-> Times(getNutrientValue(food, CALORIES_ID), multiplier),
     protein |-> Times(getNutrientValue(food, PROTEIN_ID), multiplier),
     carbs |-> Times(getNutrientValue(food, CARBS_ID), multiplier),
     fat |-> Times(getNutrientValue(food, FAT_ID), multiplier)]

Quantities == {0, 50, 100, 200}

otherThanForm == <<adapterVars, waterVars, indianVars,
                  goalVars, customStoreVars, foodVars>>

\* a click on a row of the shown result list
handleFoodSelection(food) ==
    /\ showResults
    /\ \E i \in 1..Len(searchResults) : searchResults[i] = food
    /\ selectedFood' = <<food>>
    /\ showResults' = FALSE
    /\ searchQuery' = food.description
    /\ timer' = IF food.description # searchQuery THEN Rearmed ELSE timer
    /\ quietFor' = IF food.description # searchQuery THEN 0 ELSE quietFor
    /\ UNCHANGED <<searchMode, customFoods, searchResults, searches, lastDone,
                   isSearching, isSearchingIndian, error, quantity, posted>>
    /\ UNCHANGED otherThanForm

\* onChange of the quantity field
SetQuantity(q) ==
    /\ q # quantity
    /\ quantity' = q
    /\ UNCHANGED <<searchVars, selectedFood, posted>>
    /\ UNCHANGED otherThanForm

\* submit with a food selected: the food item handed to the mutation (with
\* the result it was computed from); the button is disabled while a
\* mutation is pending
handleAddFood ==
    /\ selectedFood # <<>>
    /\ posted = <<>>
    /\ LET multiplier == Frac(quantity, 100)
           n == calculateNutrition(selectedFood[1], multiplier)
       IN posted' = << [foodName |-> selectedFood[1].description,
                        quantity |-> quantity,
                        calories |-> n.calories, protein |-> n.protein,
                        carbs |-> n.carbs, fat |-> n.fat,
                        fdcId |-> selectedFood[1].fdcId,
                        from |-> selectedFood[1]] >>
    /\ UNCHANGED <<searchVars, selectedFood, quantity>>
    /\ UNCHANGED otherThanForm

\* the mutation succeeds: onSuccess resets the form
AddFoodSucceeds ==
    /\ posted # <<>>
    /\ posted' = <<>>
    /\ selectedFood' = <<>>
    /\ searchQuery' = ""
    /\ timer' = IF searchQuery # "" THEN Rearmed ELSE timer
    /\ quietFor' = IF searchQuery # "" THEN 0 ELSE quietFor
    /\ quantity' = 100
    /\ UNCHANGED <<searchMode, customFoods, searchResults, showResults,
                   searches, lastDone, isSearching, isSearchingIndian, error>>
    /\ UNCHANGED otherThanForm

\* the "Additional nutrients" block of the selected food: which of fiber,
\* calcium and iron are rendered, with the number shown
AdditionalNutrients ==
    IF selectedFood = <<>> THEN [shown |-> {}]
    ELSE LET food == selectedFood[1]
             m == Frac(quantity, 100)
             fiberOn == getNutrientValue(food, FIBER_ID) > 0
             calciumOn == fiberOn /\ getNutrientValue(food, CALCIUM_ID) > 0
             ironOn == fiberOn /\ getNutrientValue(food, IRON_ID) > 0
         IN [shown |-> (IF fiberOn THEN {"fiber"} ELSE {})
                       \cup (IF calciumOn THEN {"calcium"} ELSE {})
                       \cup (IF ironOn THEN {"iron"} ELSE {}),
             fiber |-> MathRound(Times(getNutrientValue(food, FIBER_ID), m)),
             calcium |-> MathRound(Times(getNutrientValue(food, CALCIUM_ID), m)),
             iron |-> MathRound(Times(getNutrientValue(food, IRON_ID), m))]

\* the form after an 'all' search for "da" whose sources all delivered
AfterSearch ==
    LET s == [query |-> "da", mode |-> "all",
              custom |-> <<StoredCustomFoods>>,
              usda |-> CHOOSE o \in UsdaApiOutcomes("da") : o.st = "ok",
              indian |-> CHOOSE o \in IndianApiOutcomes("da") : o.st = "ok"]
    IN /\ searchQuery = "da"
       /\ searchMode = "all"
       /\ customFoods = <<StoredCustomFoods>>
       /\ searchResults = EffectResults(s)
       /\ showResults = TRUE
       /\ timer = Cleared
       /\ quietFor = DEBOUNCE_MS
       /\ searches = <<>>
       /\ lastDone = [done |-> TRUE, search |-> s, consulted |-> ConsultedBy(s),
                      errorSet |-> FALSE]
       /\ isSearching = FALSE
       /\ isSearchingIndian = FALSE
       /\ error = FALSE
       /\ selectedFood = <<>>
       /\ quantity = 100
       /\ posted = <<>>

InitCalc ==
    /\ AdaptersIdle
    /\ WaterIdle
    /\ IndianIdle
    /\ GoalsIdle
    /\ CustomStoreIdle
    /\ FoodItemsIdle
    /\ AfterSearch

NextCalc ==
    \/ \E i \in 1..Len(searchResults) : handleFoodSelection(searchResults[i])
    \/ \E q \in Quantities : SetQuantity(q)
    \/ handleAddFood
    \/ AddFoodSucceeds

SpecCalc == InitCalc /\ [][NextCalc]_vars

\* the per-100 value of a nutrient id in a result: that of the first entry
\* of the id in its nutrient list, 0 without such an entry or without a list
PerHundred(food, id) ==
    IF "nutrients" \notin DOMAIN food THEN 0
    ELSE LET at == {i \in 1..Len(food.nutrients) : food.nutrients[i].nutrientId = id}
         IN IF at = {} THEN 0
            ELSE food.nutrients[CHOOSE i \in at : \A j \in at : i <= j].value

\* x = per * quantity / 100, exactly
IsScaled(x, per, q) == x.num * 100 = per * q * x.den

(* C8: each of the four macro values of a logged food item equals the      *)
(* per-100 value of its nutrient id in the selected food times             *)
(* quantity/100, unrounded, an id absent from the nutrient list or a       *)
(* missing list counting as 0; quantity 200 with calories 50 gives 100,    *)
(* and quantity 0 gives all zeros.                                         *)
C8_LoggedMacrosArePerHundredTimesQuantity ==
    \A i \in 1..Len(posted) :
        LET item == posted[i] IN
        item.quantity >= 0 =>
            /\ IsScaled(item.calories, PerHundred(item.from, CALORIES_ID), item.quantity)
            /\ IsScaled(item.protein, PerHundred(item.from, PROTEIN_ID), item.quantity)
            /\ IsScaled(item.carbs, PerHundred(item.from, CARBS_ID), item.quantity)
            /\ IsScaled(item.fat, PerHundred(item.from, FAT_ID), item.quantity)
            /\ (item.quantity = 200 /\ PerHundred(item.from, CALORIES_ID) = 50)
                  => item.calories.num = 100 * item.calories.den
            /\ item.quantity = 0 =>
                  \A f \in {"calories", "protein", "carbs", "fat"} : item[f].num = 0

\* a food of 50 kcal and 3 g protein per 100 has been logged with quantity 200
C8_Witness ==
    /\ posted # <<>>
    /\ posted[1].quantity = 200
    /\ PerHundred(posted[1].from, CALORIES_ID) = 50
    /\ PerHundred(posted[1].from, PROTEIN_ID) = 3

MicroIds == [fiber |-> FIBER_ID, calcium |-> CALCIUM_ID, iron |-> IRON_ID]

(* C9: for the selected food, each of fiber, calcium and iron is shown     *)
(* exactly when its own computed value (per-100 value times quantity/100)  *)
(* is strictly greater than 0, whatever the other two are.                 *)
C9_MicroShownIffComputedPositive ==
    selectedFood # <<>> =>
        \A m \in DOMAIN MicroIds :
            (m \in AdditionalNutrients.shown)
                <=> (PerHundred(selectedFood[1], MicroIds[m]) * quantity > 0)

----------------------------------------------------------------------------
(* /user-goals routes over DatabaseStorage                                 *)

GoalUsers == {1, 2}
GoalFields == {"calorieGoal", "proteinGoal", "carbsGoal", "fatGoal"}

\* the defaults of GET /user-goals/:userId
DefaultGoals(userId) ==
    [userId |-> userId, calorieGoal |-> 2000, proteinGoal |-> 120,
     carbsGoal |-> 250, fatGoal |-> 65]

\* insertUserGoalSchema.parse succeeds: the four targets are given
insertUserGoalSchemaAccepts(body) == GoalFields \subseteq DOMAIN body

PostGoalBodies ==
    { [userId |-> 1, calorieGoal |-> 1800, proteinGoal |-> 100,
       carbsGoal |-> 200, fatGoal |-> 50],
      [userId |-> 1, calorieGoal |-> 1800] }

\* req.body of PATCH: any object, the empty one included
PatchGoalBodies ==
    { [calorieGoal |-> 1500],
      [proteinGoal |-> 100, fatGoal |-> 50],
      [userId |-> 2, carbsGoal |-> 200],
      <<>> }

\* select ... from user_goals where userId = ?
GoalRowsFor(userId) == {g \in userGoals : g.userId = userId}

\* the columns an update may set: every key of the object that names a
\* column of the table
GoalColumns == GoalFields \cup {"userId"}

\* update ... set(body): every unnamed column is reset to its default
updateSet_ResetsUnnamed(row, body) ==
    [f \in DOMAIN row |->
        IF f \in DOMAIN body /\ f \in GoalColumns THEN body[f]
        ELSE IF f \in GoalFields THEN DefaultGoals(row.userId)[f] ELSE row[f]]

\* update ... set(body) on one row
updateSet(row, body) ==
    [f \in DOMAIN row |->
        IF f \in DOMAIN body /\ f \in GoalColumns THEN body[f] ELSE row[f]]

\* a request not yet made
GoalFree(r) == goalReqs[r].pc = "idle"

\* GET /user-goals/:userId up to the answer of getUserGoals: result[0] is
\* any one of the user's rows; with a row the handler answers it, without
\* one it goes on to createUserGoals
GetUserGoals(r, userId) ==
    /\ GoalFree(r)
    /\ LET rows == GoalRowsFor(userId) IN
       IF rows # {}
       THEN \E g \in rows :
               goalReqs' = [goalReqs EXCEPT ![r] =
                   [pc |-> "done", op |-> "get", userId |-> userId,
                    status |-> 200, body |-> g, created |-> 0]]
       ELSE goalReqs' = [goalReqs EXCEPT ![r] =
                   [pc |-> "create", op |-> "get", userId |-> userId]]
    /\ UNCHANGED <<userGoals, goalsNextId>>
    /\ UNCHANGED <<adapterVars, waterVars, indianVars, clientVars,
                   customStoreVars, foodVars>>

\* GET /user-goals/:userId, no row found: createUserGoals(defaultGoals)
CreateDefaultGoals(r) ==
    /\ goalReqs[r].pc = "create"
    /\ goalsNextId <= MaxGoalRows
    /\ LET row == [id |-> goalsNextId] @@ DefaultGoals(goalReqs[r].userId) IN
       /\ userGoals' = userGoals \cup {row}
       /\ goalReqs' = [goalReqs EXCEPT ![r] =
             [pc |-> "done", op |-> "get", userId |-> goalReqs[r].userId,
              status |-> 200, body |-> row, created |-> 1]]
    /\ goalsNextId' = goalsNextId + 1
    /\ UNCHANGED <<adapterVars, waterVars, indianVars, clientVars,
                   customStoreVars, foodVars>>

\* POST /user-goals
PostUserGoals(r, body) ==
    /\ GoalFree(r)
    /\ IF insertUserGoalSchemaAccepts(body)
       THEN /\ goalsNextId <= MaxGoalRows
            /\ LET row == [id |-> goalsNextId] @@ body IN
               /\ userGoals' = userGoals \cup {row}
               /\ goalReqs' = [goalReqs EXCEPT ![r] =
                     [pc |-> "done", op |-> "post", userId |-> body.userId,
                      status |-> 201, body |-> row]]
            /\ goalsNextId' = goalsNextId + 1
       ELSE /\ goalReqs' = [goalReqs EXCEPT ![r] =
                     [pc |-> "done", op |-> "post", userId |-> body.userId,
                      status |-> 400]]
            /\ UNCHANGED <<userGoals, goalsNextId>>
    /\ UNCHANGED <<adapterVars, waterVars, indianVars, clientVars,
                   customStoreVars, foodVars>>

\* PATCH /user-goals/:userId up to the answer of getUserGoals inside
\* updateUserGoals: without a row the handler answers 404
PatchUserGoals(r, userId, body) ==
    /\ GoalFree(r)
    /\ LET rows == GoalRowsFor(userId) IN
       IF rows = {}
       THEN goalReqs' = [goalReqs EXCEPT ![r] =
               [pc |-> "done", op |-> "patch", userId |-> userId,
                status |-> 404, patch |-> body]]
       ELSE \E g \in rows :
               goalReqs' = [goalReqs EXCEPT ![r] =
                   [pc |-> "update", op |-> "patch", userId |-> userId,
                    patch |-> body, existing |-> g.id]]
    /\ UNCHANGED <<userGoals, goalsNextId>>
    /\ UNCHANGED <<adapterVars, waterVars, indianVars, clientVars,
                   customStoreVars, foodVars>>

\* updateUserGoals after its select: update ... where id = existing.id.
\* An object that names no column sets nothing: the statement is either
\* refused (500) or a no-op, the row staying as it is either way.
updateUserGoals(r) ==
    /\ goalReqs[r].pc = "update"
    /\ LET q == goalReqs[r]
           sets == DOMAIN q.patch \cap GoalColumns
       IN /\ userGoals' = {IF g.id = q.existing THEN updateSet(g, q.patch) ELSE g :
                             g \in userGoals}
          /\ \E st \in (IF sets = {} THEN {200, 500} ELSE {200}) :
                goalReqs' = [goalReqs EXCEPT ![r] =
                    [pc |-> "done", op |-> "patch", userId |-> q.userId,
                     status |-> st, patch |-> q.patch, existing |-> q.existing]]
    /\ UNCHANGED goalsNextId
    /\ UNCHANGED <<adapterVars, waterVars, indianVars, clientVars,
                   customStoreVars, foodVars>>

InitGoals ==
    /\ AdaptersIdle
    /\ WaterIdle
    /\ IndianIdle
    /\ GoalsIdle
    /\ CustomStoreIdle
    /\ FoodItemsIdle
    /\ FormMounted

NextGoals ==
    \/ \E r \in 1..MaxGoalReqs : \E u \in GoalUsers : GetUserGoals(r, u)
    \/ \E r \in 1..MaxGoalReqs : CreateDefaultGoals(r)
    \/ \E r \in 1..MaxGoalReqs : \E b \in PostGoalBodies : PostUserGoals(r, b)
    \/ \E r \in 1..MaxGoalReqs : \E u \in GoalUsers : \E b \in PatchGoalBodies :
          PatchUserGoals(r, u, b)
    \/ \E r \in 1..MaxGoalReqs : updateUserGoals(r)

SpecGoals == InitGoals /\ [][NextGoals]_vars

(* C11: whatever GET, POST and PATCH /user-goals requests are made and     *)
(* however they interleave, the store holds at most one goal record per    *)
(* user; a GET for a user without a record creates exactly one, with the   *)
(* defaults 2000/120/250/65, and a GET for a user with one creates none.   *)
C11_OneGoalRecordPerUser ==
    /\ \A u \in GoalUsers : Cardinality(GoalRowsFor(u)) <= 1
    /\ \A r \in 1..MaxGoalReqs :
          (goalReqs[r].pc = "done" /\ goalReqs[r].op = "get"
             /\ goalReqs[r].created = 1) =>
                /\ goalReqs[r].body.calorieGoal = 2000
                /\ goalReqs[r].body.proteinGoal = 120
                /\ goalReqs[r].body.carbsGoal = 250
                /\ goalReqs[r].body.fatGoal = 65

GoalRowOf(rows, id) == CHOOSE g \in rows : g.id = id

(* C12: PATCH /user-goals/:userId is a partial merge: on the user's record *)
(* every goal field named in the body takes the body's value, every goal   *)
(* field not named keeps its value, and no other record changes; for a     *)
(* user without a record the answer is 404 and the store is unchanged.     *)
C12_PatchGoalsIsPartialMerge ==
    [][\A r \in 1..MaxGoalReqs :
          /\ (goalReqs[r].pc = "update" /\ goalReqs'[r].pc = "done") =>
                LET q == goalReqs[r]
                    before == GoalRowOf(userGoals, q.existing)
                    after == GoalRowOf(userGoals', q.existing)
                IN /\ \A f \in GoalFields :
                         after[f] = IF f \in DOMAIN q.patch THEN q.patch[f]
                                    ELSE before[f]
                   /\ \A g \in userGoals : g.id # q.existing => g \in userGoals'
                   /\ Cardinality(userGoals') = Cardinality(userGoals)
          /\ (GoalFree(r) /\ goalReqs'[r] # goalReqs[r]
                /\ goalReqs'[r].pc = "done" /\ goalReqs'[r].op = "patch") =>
                /\ goalReqs'[r].status = 404
                /\ GoalRowsFor(goalReqs'[r].userId) = {}
                /\ userGoals' = userGoals
      ]_vars

\* a PATCH naming only calorieGoal has been answered 200 and the record
\* holds the new calorieGoal beside the default proteinGoal
C12_Witness ==
    \E r \in 1..MaxGoalReqs :
        /\ goalReqs[r].pc = "done"
        /\ goalReqs[r].op = "patch"
        /\ goalReqs[r].status = 200
        /\ goalReqs[r].patch = [calorieGoal |-> 1500]
        /\ \E g \in userGoals :
              /\ g.id = goalReqs[r].existing
              /\ g.calorieGoal = 1500
              /\ g.proteinGoal = 120

----------------------------------------------------------------------------
(* /custom-foods routes over DatabaseStorage                               *)

CustomUsers == {1, 2}

\* insertCustomFoodSchema.parse succeeds: owner and name are given
insertCustomFoodSchemaAccepts(body) == {"userId", "foodName"} \subseteq DOMAIN body

PostCustomBodies ==
    { [userId |-> 1, foodName |-> "Dal fry", calories |-> 180],
      [userId |-> 2, foodName |-> "dal", calories |-> 50],
      [userId |-> 1, calories |-> 10] }

CustomQueries == {"da", "fry"}

\* the results a statement with .limit(20) may return from its matches
Limited(hits) ==
    IF Cardinality(hits) <= SEARCH_LIMIT THEN {hits}
    ELSE {part \in SUBSET hits : Cardinality(part) = SEARCH_LIMIT}

\* DatabaseStorage.getCustomFoods
getCustomFoods(userId) == {f \in customFoodRows : f.userId = userId}

\* DatabaseStorage.searchCustomFoods: the possible results
searchCustomFoods(userId, query) ==
    Limited({f \in customFoodRows :
                /\ f.userId = userId
                /\ includes(toLowerCase(f.foodName), toLowerCase(query))})

\* DatabaseStorage.getCustomFoodById and the where clause of deleteCustomFood
getCustomFoodById(id) == {f \in customFoodRows : f.id = id}

\* what the client of user asUser does; the by-id routes carry no user
CustomAnswer(op, asUser, status, returned, removed) ==
    [op |-> op, asUser |-> asUser, status |-> status,
     returned |-> returned, removed |-> removed]

\* POST /custom-foods
PostCustomFood(body) ==
    /\ IF insertCustomFoodSchemaAccepts(body)
       THEN /\ customNextId <= MaxCustomRows
            /\ customFoodRows' = customFoodRows \cup {[id |-> customNextId] @@ body}
            /\ customNextId' = customNextId + 1
            /\ customResp' = CustomAnswer("post", body.userId, 201,
                                          {[id |-> customNextId] @@ body}, {})
       ELSE /\ customResp' = CustomAnswer("post", body.userId, 400, {}, {})
            /\ UNCHANGED <<customFoodRows, customNextId>>
    /\ UNCHANGED <<adapterVars, waterVars, indianVars, clientVars, goalVars, foodVars>>

\* GET /custom-foods?userId=
ListCustomFoods(userId) ==
    /\ customResp' = CustomAnswer("list", userId, 200, getCustomFoods(userId), {})
    /\ UNCHANGED <<customFoodRows, customNextId>>
    /\ UNCHANGED <<adapterVars, waterVars, indianVars, clientVars, goalVars, foodVars>>

\* GET /custom-foods/search?userId=&query=
SearchCustomFoods(userId, query) ==
    /\ \E rows \in searchCustomFoods(userId, query) :
          customResp' = CustomAnswer("search", userId, 200, rows, {})
    /\ UNCHANGED <<customFoodRows, customNextId>>
    /\ UNCHANGED <<adapterVars, waterVars, indianVars, clientVars, goalVars, foodVars>>

\* GET /custom-foods/:id, sent by the client of user asUser
GetCustomFood(id, asUser) ==
    /\ LET found == getCustomFoodById(id) IN
       customResp' = CustomAnswer("get", asUser,
                                  IF found = {} THEN 404 ELSE 200, found, {})
    /\ UNCHANGED <<customFoodRows, customNextId>>
    /\ UNCHANGED <<adapterVars, waterVars, indianVars, clientVars, goalVars, foodVars>>

\* DELETE /custom-foods/:id, sent by the client of user asUser
DeleteCustomFood(id, asUser) ==
    /\ LET found == getCustomFoodById(id) IN
       /\ customFoodRows' = customFoodRows \ found
       /\ customResp' = CustomAnswer("delete", asUser,
                                     IF found = {} THEN 404 ELSE 204, {}, found)
    /\ UNCHANGED customNextId
    /\ UNCHANGED <<adapterVars, waterVars, indianVars, clientVars, goalVars, foodVars>>

InitCustom ==
    /\ AdaptersIdle
    /\ WaterIdle
    /\ IndianIdle
    /\ GoalsIdle
    /\ CustomStoreIdle
    /\ FoodItemsIdle
    /\ FormMounted

NextCustom ==
    \/ \E b \in PostCustomBodies : PostCustomFood(b)
    \/ \E u \in CustomUsers : ListCustomFoods(u)
    \/ \E u \in CustomUsers : \E q \in CustomQueries : SearchCustomFoods(u, q)
    \/ \E id \in 1..MaxCustomRows : \E u \in CustomUsers : GetCustomFood(id, u)
    \/ \E id \in 1..MaxCustomRows : \E u \in CustomUsers : DeleteCustomFood(id, u)

SpecCustom == InitCustom /\ [][NextCustom]_vars

(* C13: custom foods are never visible across users: no custom-food        *)
(* request made for user A (list, search, get by id, delete by id) returns *)
(* or removes a custom food owned by another user.                         *)
C13_CustomFoodsNeverCrossUsers ==
    customResp.op \in {"list", "search", "get", "delete"} =>
        \A f \in customResp.returned \cup customResp.removed :
            f.userId = customResp.asUser

----------------------------------------------------------------------------
(* /food-items routes over DatabaseStorage                                 *)

FoodUsers == {1, 2}
FoodDates == {"2024-01-01"}

\* insertFoodItemSchema.parse succeeds: name, quantity and date are given
insertFoodItemSchemaAccepts(body) ==
    {"foodName", "quantity", "date"} \subseteq DOMAIN body

PostFoodBodies ==
    { [userId |-> 1, foodName |-> "dal", quantity |-> 200, calories |-> 100,
       date |-> "2024-01-01", fdcId |-> "indian-1"],
      [userId |-> 2, foodName |-> "soda", quantity |-> 100, calories |-> 0,
       date |-> "2024-01-01"],
      [userId |-> 1, foodName |-> "dal"] }

\* whether a statement sent to the database runs or is rejected with an
\* Error (connection lost, constraint violated)
StoreOutcomes == {"ok", "error"}

\* the values createFoodItem inserts: the body with userId || null and
\* fdcId || null
FoodItemValues(body) ==
    [f \in DOMAIN body \cup {"userId", "fdcId"} |->
        IF f = "userId" THEN (IF "userId" \in DOMAIN body /\ body.userId # 0
                              THEN body.userId ELSE Null)
        ELSE IF f = "fdcId" THEN (IF "fdcId" \in DOMAIN body /\ body.fdcId # ""
                                  THEN body.fdcId ELSE Null)
        ELSE body[f]]

\* the status of the catch block of a POST route: 400 for any Error, which
\* a ZodError and a database error both are, 500 for any other thrown value
PostCatchStatus(thrown) == IF thrown \in {"ZodError", "DatabaseError"} THEN 400 ELSE 500

\* delete from food_items where every id up to the given one matches
deleteFoodItemRows_UpToId(id) == {f \in foodItems : f.id <= id}

\* the rows deleteFoodItem removes: delete ... where id = ?
deleteFoodItemRows(id) == {f \in foodItems : f.id = id}

FoodAnswer(op, status, failure) == [op |-> op, status |-> status, failure |-> failure]

\* POST /food-items
PostFoodItem(body, store) ==
    /\ IF ~insertFoodItemSchemaAccepts(body)
       THEN /\ foodResp' = FoodAnswer("post", PostCatchStatus("ZodError"), "validation")
            /\ UNCHANGED <<foodItems, foodNextId>>
       ELSE IF store = "error"
       THEN /\ foodResp' = FoodAnswer("post", PostCatchStatus("DatabaseError"), "store")
            /\ UNCHANGED <<foodItems, foodNextId>>
       ELSE /\ foodNextId <= MaxFoodRows
            /\ foodItems' = foodItems \cup {[id |-> foodNextId] @@ FoodItemValues(body)}
            /\ foodNextId' = foodNextId + 1
            /\ foodResp' = FoodAnswer("post", 201, "none")
    /\ UNCHANGED <<adapterVars, waterVars, indianVars, clientVars, goalVars,
                   customStoreVars>>

\* GET /food-items?userId=&date=
GetFoodItems(userId, date, store) ==
    /\ foodResp' = IF store = "error" THEN FoodAnswer("list", 500, "store")
                   ELSE [items |-> {f \in foodItems : f.userId = userId /\ f.date = date}]
                        @@ FoodAnswer("list", 200, "none")
    /\ UNCHANGED <<foodItems, foodNextId>>
    /\ UNCHANGED <<adapterVars, waterVars, indianVars, clientVars, goalVars,
                   customStoreVars>>

\* DELETE /food-items/:id
DeleteFoodItem(id, store) ==
    /\ IF store = "error"
       THEN /\ foodResp' = [target |-> id] @@ FoodAnswer("delete", 500, "store")
            /\ UNCHANGED foodItems
       ELSE LET gone == deleteFoodItemRows(id) IN
            /\ foodItems' = foodItems \ gone
            /\ foodResp' = [target |-> id] @@
                  (IF gone # {} THEN FoodAnswer("delete", 204, "none")
                   ELSE FoodAnswer("delete", 404, "absent"))
    /\ UNCHANGED foodNextId
    /\ UNCHANGED <<adapterVars, waterVars, indianVars, clientVars, goalVars,
                   customStoreVars>>

InitFood ==
    /\ AdaptersIdle
    /\ WaterIdle
    /\ IndianIdle
    /\ GoalsIdle
    /\ CustomStoreIdle
    /\ FoodItemsIdle
    /\ FormMounted

NextFood ==
    \/ \E b \in PostFoodBodies : \E o \in StoreOutcomes : PostFoodItem(b, o)
    \/ \E u \in FoodUsers : \E d \in FoodDates : \E o \in StoreOutcomes :
          GetFoodItems(u, d, o)
    \/ \E id \in 1..MaxFoodRows : \E o \in StoreOutcomes : DeleteFoodItem(id, o)

SpecFood == InitFood /\ [][NextFood]_vars

(* C19: every route maps a failure to its status by kind: a body failing   *)
(* validation gives 400, an absent entity 404, and any other failure, a    *)
(* store error included, 500; a store failure during a POST with a valid   *)
(* body gives 500, not 400.                                                *)
C19_StatusByFailureKind ==
    /\ foodResp.op # "none" /\ foodResp.failure = "validation" => foodResp.status = 400
    /\ foodResp.op # "none" /\ foodResp.failure = "absent" => foodResp.status = 404
    /\ foodResp.op # "none" /\ foodResp.failure = "store" => foodResp.status = 500

(* C20: logged food entries are only created and hard-deleted, never       *)
(* mutated: DELETE /food-items/:id on an existing id removes exactly that   *)
(* entry and answers 204, on an absent id answers 404 and leaves the store *)
(* unchanged, and no request changes a field of an entry that stays.       *)
C20_FoodItemsCreatedDeletedNeverMutated ==
    [][/\ \A e \in foodItems : \A n \in foodItems' : n.id = e.id => n = e
       /\ (foodResp' # foodResp /\ foodResp'.op = "delete") =>
             LET id == foodResp'.target
                 had == \E e \in foodItems : e.id = id
             IN /\ foodResp'.status = 204 =>
                      /\ had
                      /\ foodItems' = {e \in foodItems : e.id # id}
                /\ foodResp'.status = 404 => ~had /\ foodItems' = foodItems
                /\ foodResp'.status \in {204, 404, 500}
                /\ foodResp'.failure # "store" => (had <=> foodResp'.status = 204)
       /\ foodResp'.op # "delete" => foodItems \subseteq foodItems'
      ]_vars

\* DELETE of an existing entry has been answered 204 and another entry stays
C20_Witness ==
    /\ foodResp.op = "delete"
    /\ foodResp.status = 204
    /\ foodItems # {}
    /\ \A e \in foodItems : e.id # foodResp.target

----------------------------------------------------------------------------
(* TrackFoodForm: selecting a result while the search effect runs.         *)
(* handleFoodSelection sets searchQuery to the food's description, and     *)
(* searchQuery is a dependency of the search effect.                       *)

InitSelect ==
    /\ AdaptersIdle
    /\ WaterIdle
    /\ IndianIdle
    /\ GoalsIdle
    /\ CustomStoreIdle
    /\ FoodItemsIdle
    /\ AfterSearch

NextSelect ==
    \/ \E i \in 1..Len(searchResults) : handleFoodSelection(searchResults[i])
    \/ \E q \in QueryInputs : SetSearchQuery(q)
    \/ Tick
    \/ TimerFireShort
    \/ TimerFireLocal
    \/ TimerFireDispatch
    \/ \E i \in 1..Len(searches) : \E o \in UsdaApiOutcomes(searches[i].query) :
          SourceSettles(i, "usda", o)
    \/ \E i \in 1..Len(searches) : \E o \in IndianApiOutcomes(searches[i].query) :
          SourceSettles(i, "indian", o)

SpecSelect == InitSelect /\ [][NextSelect]_vars

\* a food has been selected and the search box still holds what the
\* selection put there (no input of QueryInputs is a food's description)
SelectionStands ==
    /\ selectedFood # <<>>
    /\ searchQuery = selectedFood[1].description

(* C24: after handleFoodSelection the result list is hidden and stays      *)
(* hidden, and no new search is dispatched, until the user next edits the  *)
(* search query or changes the search mode.                                *)
C24_SelectionHidesListAndStartsNoSearch ==
    SelectionStands =>
        /\ ~showResults
        /\ \A i \in 1..Len(searches) : searches[i].query # searchQuery
====
